---- MODULE Spec2Model ----
(***************************************************************************)
(* AudioStreamTrack (media/libaaudio/src/legacy/AudioStreamTrack.cpp):     *)
(* the lifecycle state machine of an AAudio output stream driven on top of *)
(* an AudioTrack, with its frame accounting (frames written / read).       *)
(*                                                                         *)
(* The stream operations are translated from AudioStreamTrack.cpp.  The    *)
(* AudioTrack (the sink), the AudioStream base class and MonotonicCounter  *)
(* live in other files; they are modelled from the design document.        *)
(***************************************************************************)
EXTENDS Integers, FiniteSets, Sequences, TLC

(* ------------------------------ bounds -------------------------------- *)

\* Wrap modulus of the sink's position counter (2^32 in the build).
WrapModulus == 3
\* Capacity of the sink's buffer, in frames.
MaxBuf == 2
\* Largest numFrames a modelled write asks for (besides the oversized one).
MaxReq == 2
\* Writes are enabled while framesWritten is below this cap.
MaxWritten == 3
\* Polls of getFramesRead are enabled while framesRead is below this cap.
MaxRead == 5
\* Frames that may still be rendered after the sink was paused or stopped.
MaxDrain == 1
\* Step-by-step executions accept writes while their total is below this cap.
MaxAccepted == 2
\* Executions checked for settling write while the total is below this cap.
MaxLiveWritten == 2

(* -------------------------- program constants ------------------------- *)

\* getBytesPerFrame(): stereo 16-bit frames.
BytesPerFrame == 4
\* Largest int32_t, the limit of AAudioConvert_framesToBytes.
Int32Max == 2147483647
\* status_t values the sink's write may return instead of a byte count.
WOULD_BLOCK == -11
DEAD_OBJECT == -32

States ==
    { "UNINITIALIZED", "OPEN", "STARTING", "STARTED", "PAUSING", "PAUSED",
      "FLUSHING", "FLUSHED", "STOPPING", "STOPPED", "CLOSED" }

(* --------------------- MonotonicCounter (utility) --------------------- *)
\* A counter is [counter64, counter32]: the 64-bit value and the last raw
\* (wrapping) value folded into it.

NewCounter == [counter64 |-> 0, counter32 |-> 0]

Get(c) == c.counter64

Increment(c, offset) == [c EXCEPT !.counter64 = @ + offset]

\* Fold a raw wrapped position: a raw value below the last one is a wrap.
Update32(c, raw) ==
    LET delta == IF raw < c.counter32
                 THEN (WrapModulus - c.counter32) + raw
                 ELSE raw - c.counter32
    IN  [counter64 |-> c.counter64 + delta, counter32 |-> raw]

Reset32(c) == [c EXCEPT !.counter32 = 0]

(* -------------------------- the sink (AudioTrack) --------------------- *)
\* mode: "stopped" | "active" | "pausing" | "paused" | "stopping": a pause or
\* a stop of an active track takes effect later (SinkSettle); pos: raw
\* position; buf: frames buffered and not yet rendered; drain: frames still
\* rendered after the track reported itself stopped; flushPending: a flush
\* was requested and has not taken effect; started: what hasStarted() says
\* (true only of a track that plays).

NewTrack ==
    [mode |-> "stopped", pos |-> 0, buf |-> 0, drain |-> 0,
     flushPending |-> FALSE, started |-> FALSE]

Min(a, b) == IF a < b THEN a ELSE b

\* stopped(): the track is neither playing nor on its way to rest.
TrackStopped(t) == t.mode \in {"stopped", "paused"}

\* The track renders frames: it plays, or is still on its way to rest.
TrackRuns(t) == t.mode \in {"active", "pausing", "stopping"}

\* start(): a track that was stopped or flushed restarts its position from
\* zero; a flush still pending takes effect first.
TrackStart(t) ==
    [t EXCEPT !.mode = "active", !.drain = 0, !.started = FALSE,
              !.flushPending = FALSE,
              !.buf = IF t.flushPending THEN 0 ELSE @,
              !.pos = IF t.mode \in {"stopped", "stopping"} \/ t.flushPending
                      THEN 0 ELSE @]

\* pause(): only a running track reacts; it no longer reports "started".
TrackPause(t) ==
    IF TrackRuns(t)
    THEN [t EXCEPT !.mode = "pausing", !.started = FALSE]
    ELSE t

\* stop(): a running track comes to rest later, a paused one at once.
TrackStop(t) ==
    [t EXCEPT !.mode = IF TrackRuns(t) THEN "stopping" ELSE "stopped",
              !.started = FALSE]

\* The frames a track may still render once it reports itself stopped.
Drains(t) == 0 .. Min(t.buf, MaxDrain)

\* flush(): takes effect later (SinkFlushDone); ignored by a running track.
TrackFlush(t) ==
    IF TrackRuns(t) THEN t ELSE [t EXCEPT !.flushPending = TRUE]

TrackAccept(t, k) == [t EXCEPT !.buf = @ + k]

VARIABLES
    state,                  \* AudioStream::mState
    mAudioTrack,            \* "null" or "track": the sp<AudioTrack>
    track,                  \* the state of the held AudioTrack
    mFramesRead,            \* AudioStream::mFramesRead
    mFramesWritten,         \* AudioStream::mFramesWritten
    mPositionWhenPausing,
    last,                   \* the last operation: name, result, what it saw
    prevRead,               \* last getFramesRead result since a flush/stop
    polledRaw,              \* raw position its last successful poll saw, or -1
    pausePoll,              \* position the last poll of this pause saw, or -1
    wpc,                    \* writer context: "idle" | "load" | "store"
    wk,                     \* frames the write in flight had accepted
    wblocking,              \* whether the write in flight is a blocking one
    wtmp,                   \* value its increment loaded from mFramesWritten
    dpc,                    \* driver context: "idle" | "load" | "fold" | "reset"
    dop,                    \* the request in flight: "none" | "flush" | "stop"
    dtmp,                   \* value the driver loaded from mFramesWritten
    dposOk,                 \* what getPosition answers the request in flight
    accepted                \* frames the sink accepted from all writes

vars ==
    << state, mAudioTrack, track, mFramesRead, mFramesWritten,
       mPositionWhenPausing, last, prevRead, polledRaw, pausePoll,
       wpc, wk, wblocking, wtmp, dpc, dop, dtmp, dposOk, accepted >>

\* The variables of the step-by-step executions (ConcurrentSpec): an
\* operation executed as one step leaves them alone.
conc ==
    << wpc, wk, wblocking, wtmp, dpc, dop, dtmp, dposOk, accepted >>

\* Record of an operation: op its name, result its result code, ret the
\* number it returned (frames, or -1 with an error), calls the sink methods
\* it invoked, status what the one of them that can fail answered ("NONE"
\* without such a call, "NO_ERROR", "ERROR" or "WOULD_BLOCK").
Call(op, result, ret, calls, status) ==
    [op |-> op, result |-> result, ret |-> ret, calls |-> calls,
     status |-> status]

NoCall == Call("none", "OK", 0, {}, "NONE")

Init ==
    /\ state = "UNINITIALIZED"
    /\ mAudioTrack = "null"
    /\ track = NewTrack
    /\ mFramesRead = NewCounter
    /\ mFramesWritten = NewCounter
    /\ mPositionWhenPausing = 0
    /\ last = NoCall
    /\ prevRead = -1
    /\ polledRaw = -1
    /\ pausePoll = -1
    /\ wpc = "idle" /\ wk = 0 /\ wblocking = FALSE /\ wtmp = 0
    /\ dpc = "idle" /\ dop = "none" /\ dtmp = 0 /\ dposOk = TRUE
    /\ accepted = 0

(* ------------------------------ open / close -------------------------- *)

\* AudioStream::open fails: nothing was built.
OpenBaseFails ==
    /\ last' = Call("open", "BASE_ERROR", 0, {}, "NONE")
    /\ UNCHANGED << state, mAudioTrack, track, mFramesRead, mFramesWritten,
                    mPositionWhenPausing, prevRead, polledRaw, pausePoll,
                    conc >>

\* A new AudioTrack replaces mAudioTrack; initCheck fails; close() runs: it
\* clears the track unless the state is already CLOSED.
OpenInitCheckFails ==
    /\ IF state # "CLOSED"
       THEN /\ mAudioTrack' = "null"
            /\ state' = "CLOSED"
       ELSE /\ mAudioTrack' = "track"
            /\ state' = state
    /\ track' = NewTrack
    /\ pausePoll' = -1
    /\ last' = Call("open", "SINK_ERROR", 0, {"initCheck"}, "ERROR")
    /\ UNCHANGED << mFramesRead, mFramesWritten, mPositionWhenPausing,
                    prevRead, polledRaw, conc >>

OpenOk ==
    /\ mAudioTrack' = "track"
    /\ track' = NewTrack
    /\ state' = "OPEN"
    /\ pausePoll' = -1
    /\ last' = Call("open", "OK", 0, {"initCheck"}, "NO_ERROR")
    /\ UNCHANGED << mFramesRead, mFramesWritten, mPositionWhenPausing,
                    prevRead, polledRaw, conc >>

Open == OpenBaseFails \/ OpenInitCheckFails \/ OpenOk

\* Mutant: close releases the sink and leaves the state as it is.
Close_KeepsState ==
    /\ mAudioTrack' = "null"
    /\ track' = NewTrack
    /\ pausePoll' = -1
    /\ last' = Call("close", "OK", 0, {}, "NONE")
    /\ UNCHANGED << state, mFramesRead, mFramesWritten, mPositionWhenPausing,
                    prevRead, polledRaw, conc >>

Close ==
    /\ IF state # "CLOSED"
       THEN /\ mAudioTrack' = "null"
            /\ track' = NewTrack
            /\ state' = "CLOSED"
       ELSE UNCHANGED << mAudioTrack, track, state >>
    /\ pausePoll' = -1
    /\ last' = Call("close", "OK", 0, {}, "NONE")
    /\ UNCHANGED << mFramesRead, mFramesWritten, mPositionWhenPausing,
                    prevRead, polledRaw, conc >>

(* --------------------------- requestStart ----------------------------- *)

\* requestStart also stores the position it queried in mPositionWhenStarting,
\* a field that no operation of the file reads back; it is left out.
RequestStartNoTrack ==
    /\ mAudioTrack = "null"
    /\ last' = Call("requestStart", "INVALID_STATE", 0, {}, "NONE")
    /\ UNCHANGED << state, mAudioTrack, track, mFramesRead, mFramesWritten,
                    mPositionWhenPausing, prevRead, polledRaw, pausePoll,
                    conc >>

RequestStartPositionFails ==
    /\ mAudioTrack = "track"
    /\ last' = Call("requestStart", "SINK_ERROR", 0,
                    {"getPosition"}, "ERROR")
    /\ UNCHANGED << state, mAudioTrack, track, mFramesRead, mFramesWritten,
                    mPositionWhenPausing, prevRead, polledRaw, pausePoll,
                    conc >>

RequestStartFails ==
    /\ mAudioTrack = "track"
    /\ last' = Call("requestStart", "SINK_ERROR", 0,
                    {"getPosition", "start"}, "ERROR")
    /\ UNCHANGED << state, mAudioTrack, track, mFramesRead, mFramesWritten,
                    mPositionWhenPausing, prevRead, polledRaw, pausePoll,
                    conc >>

RequestStartOk ==
    /\ mAudioTrack = "track"
    /\ track' = TrackStart(track)
    /\ state' = "STARTING"
    /\ pausePoll' = -1
    /\ last' = Call("requestStart", "OK", 0,
                    {"getPosition", "start"}, "NO_ERROR")
    /\ UNCHANGED << mAudioTrack, mFramesRead, mFramesWritten,
                    mPositionWhenPausing, prevRead, polledRaw, conc >>

RequestStart ==
    \/ RequestStartNoTrack
    \/ RequestStartPositionFails
    \/ RequestStartFails
    \/ RequestStartOk

(* --------------------------- requestPause ----------------------------- *)

\* Mutant: requestPause without its state check.
PauseAllowed_Any(st) == TRUE

PauseAllowed(st) == st \in {"STARTING", "STARTED"}

RequestPauseInvalid ==
    /\ mAudioTrack = "null" \/ ~PauseAllowed(state)
    /\ last' = Call("requestPause", "INVALID_STATE", 0, {}, "NONE")
    /\ UNCHANGED << state, mAudioTrack, track, mFramesRead, mFramesWritten,
                    mPositionWhenPausing, prevRead, polledRaw, pausePoll,
                    conc >>

\* setState(PAUSING), pause(), then the snapshot query, which may fail.
RequestPauseGo(posOk) ==
    /\ mAudioTrack = "track" /\ PauseAllowed(state)
    /\ state' = "PAUSING"
    /\ track' = TrackPause(track)
    /\ mPositionWhenPausing' = IF posOk THEN track.pos ELSE mPositionWhenPausing
    /\ pausePoll' = IF posOk THEN track.pos ELSE -1
    /\ last' = Call("requestPause", IF posOk THEN "OK" ELSE "SINK_ERROR", 0,
                    {"pause", "getPosition"},
                    IF posOk THEN "NO_ERROR" ELSE "ERROR")
    /\ UNCHANGED << mAudioTrack, mFramesRead, mFramesWritten, prevRead,
                    polledRaw, conc >>

RequestPause ==
    \/ RequestPauseInvalid
    \/ \E posOk \in BOOLEAN : RequestPauseGo(posOk)

(* ------------------------- getFramesRead fold ------------------------- *)

\* Mutant: getFramesRead also polls the sink while PAUSING.
PollsPosition_AlsoPausing(st) ==
    st \in {"STARTING", "STARTED", "STOPPING", "PAUSING"}

PollsPosition(st) == st \in {"STARTING", "STARTED", "STOPPING"}

\* Mutant: the raw position replaces the counter instead of being folded.
FoldFramesRead_Raw(st, c, t, posOk) ==
    IF PollsPosition(st) /\ posOk
    THEN [counter64 |-> t.pos, counter32 |-> t.pos]
    ELSE c

\* Mutant: the fold adds the plain difference of the raw positions, with no
\* modulus when the position wrapped.
FoldFramesRead_NoWrap(st, c, t, posOk) ==
    IF PollsPosition(st) /\ posOk
    THEN [counter64 |-> c.counter64 + (t.pos - c.counter32),
          counter32 |-> t.pos]
    ELSE c

\* mFramesRead after the body of getFramesRead() ran in state st.
FoldFramesRead(st, c, t, posOk) ==
    IF PollsPosition(st) /\ posOk THEN Update32(c, t.pos) ELSE c

(* --------------------------- requestFlush ----------------------------- *)

\* Mutant: requestFlush without its state check.
FlushAllowed_Any(st) == TRUE

FlushAllowed(st) == st = "PAUSED"

RequestFlushInvalid ==
    /\ mAudioTrack = "null" \/ ~FlushAllowed(state)
    /\ last' = Call("requestFlush", "INVALID_STATE", 0, {}, "NONE")
    /\ UNCHANGED << state, mAudioTrack, track, mFramesRead, mFramesWritten,
                    mPositionWhenPausing, prevRead, polledRaw, pausePoll,
                    conc >>

\* getFramesRead() runs with the state already FLUSHING: it does not poll.
RequestFlushGo ==
    /\ mAudioTrack = "track" /\ FlushAllowed(state)
    /\ state' = "FLUSHING"
    /\ LET c == FoldFramesRead("FLUSHING", mFramesRead, track, TRUE)
       IN  mFramesRead' = Increment(c, Get(mFramesWritten) - Get(c))
    /\ track' = TrackFlush(track)
    /\ mFramesWritten' = Reset32(mFramesWritten)
    /\ prevRead' = -1
    /\ polledRaw' = -1
    /\ pausePoll' = -1
    /\ last' = Call("requestFlush", "OK", 0, {"flush"}, "NO_ERROR")
    /\ UNCHANGED << mAudioTrack, mPositionWhenPausing, conc >>

RequestFlush == RequestFlushInvalid \/ RequestFlushGo

(* ---------------------------- requestStop ----------------------------- *)

RequestStopNoTrack ==
    /\ mAudioTrack = "null"
    /\ last' = Call("requestStop", "INVALID_STATE", 0, {}, "NONE")
    /\ UNCHANGED << state, mAudioTrack, track, mFramesRead, mFramesWritten,
                    mPositionWhenPausing, prevRead, polledRaw, pausePoll,
                    conc >>

\* getFramesRead() runs with the state already STOPPING: it polls the sink.
RequestStopGo(posOk) ==
    /\ mAudioTrack = "track"
    /\ state' = "STOPPING"
    /\ LET c == FoldFramesRead("STOPPING", mFramesRead, track, posOk)
       IN  mFramesRead' = Increment(c, Get(mFramesWritten) - Get(c))
    /\ track' = TrackStop(track)
    /\ mFramesWritten' = Reset32(mFramesWritten)
    /\ prevRead' = -1
    /\ polledRaw' = -1
    /\ pausePoll' = -1
    /\ last' = Call("requestStop", "OK", 0,
                    {"getPosition", "stop"},
                    IF posOk THEN "NO_ERROR" ELSE "ERROR")
    /\ UNCHANGED << mAudioTrack, mPositionWhenPausing, conc >>

RequestStop ==
    \/ RequestStopNoTrack
    \/ \E posOk \in BOOLEAN : RequestStopGo(posOk)

(* ----------------------------- updateState ---------------------------- *)
\* The polling branches call the sink without a null check: they are taken
\* with a track held (a call on an absent track ends the process).

\* Mutant: STARTING becomes STARTED whatever hasStarted() says.
UpdateStarting_IgnoresFlag ==
    /\ state = "STARTING" /\ mAudioTrack = "track"
    /\ state' = "STARTED"
    /\ last' = Call("updateState", "OK", 0, {"hasStarted"}, "NO_ERROR")
    /\ UNCHANGED << mAudioTrack, track, mFramesRead, mFramesWritten,
                    mPositionWhenPausing, prevRead, polledRaw, pausePoll,
                    conc >>

UpdateStarting ==
    /\ state = "STARTING" /\ mAudioTrack = "track"
    /\ state' = IF track.started THEN "STARTED" ELSE state
    /\ last' = Call("updateState", "OK", 0, {"hasStarted"}, "NO_ERROR")
    /\ UNCHANGED << mAudioTrack, track, mFramesRead, mFramesWritten,
                    mPositionWhenPausing, prevRead, polledRaw, pausePoll,
                    conc >>

UpdatePausingNotStopped ==
    /\ state = "PAUSING" /\ mAudioTrack = "track"
    /\ ~TrackStopped(track)
    /\ last' = Call("updateState", "OK", 0, {"stopped"}, "NO_ERROR")
    /\ UNCHANGED << state, mAudioTrack, track, mFramesRead, mFramesWritten,
                    mPositionWhenPausing, prevRead, polledRaw, pausePoll,
                    conc >>

\* Mutant: the failed query has written into the snapshot.
UpdatePausingPositionFails_StoresPosition ==
    /\ state = "PAUSING" /\ mAudioTrack = "track"
    /\ TrackStopped(track)
    /\ mPositionWhenPausing' = track.pos
    /\ last' = Call("updateState", "SINK_ERROR", 0,
                    {"stopped", "getPosition"}, "ERROR")
    /\ UNCHANGED << state, mAudioTrack, track, mFramesRead, mFramesWritten,
                    prevRead, polledRaw, pausePoll, conc >>

UpdatePausingPositionFails ==
    /\ state = "PAUSING" /\ mAudioTrack = "track"
    /\ TrackStopped(track)
    /\ last' = Call("updateState", "SINK_ERROR", 0,
                    {"stopped", "getPosition"}, "ERROR")
    /\ UNCHANGED << state, mAudioTrack, track, mFramesRead, mFramesWritten,
                    mPositionWhenPausing, prevRead, polledRaw, pausePoll,
                    conc >>

\* Mutant: a poll that finds another position keeps the old snapshot.
UpdatePausingPolled_KeepsSnapshot ==
    /\ state = "PAUSING" /\ mAudioTrack = "track"
    /\ TrackStopped(track)
    /\ state' = IF track.pos = mPositionWhenPausing THEN "PAUSED" ELSE state
    /\ pausePoll' = IF state' = "PAUSING" THEN track.pos ELSE -1
    /\ last' = Call("updateState", "OK", 0,
                    {"stopped", "getPosition"}, "NO_ERROR")
    /\ UNCHANGED << mAudioTrack, track, mFramesRead, mFramesWritten,
                    mPositionWhenPausing, prevRead, polledRaw, conc >>

UpdatePausingPolled ==
    /\ state = "PAUSING" /\ mAudioTrack = "track"
    /\ TrackStopped(track)
    /\ state' = IF track.pos = mPositionWhenPausing THEN "PAUSED" ELSE state
    /\ mPositionWhenPausing' = track.pos
    /\ pausePoll' = IF state' = "PAUSING" THEN track.pos ELSE -1
    /\ last' = Call("updateState", "OK", 0,
                    {"stopped", "getPosition"}, "NO_ERROR")
    /\ UNCHANGED << mAudioTrack, track, mFramesRead, mFramesWritten, prevRead,
                    polledRaw, conc >>

UpdateFlushingPositionFails ==
    /\ state = "FLUSHING" /\ mAudioTrack = "track"
    /\ last' = Call("updateState", "SINK_ERROR", 0,
                    {"getPosition"}, "ERROR")
    /\ UNCHANGED << state, mAudioTrack, track, mFramesRead, mFramesWritten,
                    mPositionWhenPausing, prevRead, polledRaw, pausePoll,
                    conc >>

UpdateFlushingPolled ==
    /\ state = "FLUSHING" /\ mAudioTrack = "track"
    /\ state' = IF track.pos = 0 THEN "FLUSHED" ELSE state
    /\ last' = Call("updateState", "OK", 0, {"getPosition"}, "NO_ERROR")
    /\ UNCHANGED << mAudioTrack, track, mFramesRead, mFramesWritten,
                    mPositionWhenPausing, prevRead, polledRaw, pausePoll,
                    conc >>

UpdateStopping ==
    /\ state = "STOPPING" /\ mAudioTrack = "track"
    /\ state' = IF TrackStopped(track) THEN "STOPPED" ELSE state
    /\ last' = Call("updateState", "OK", 0, {"stopped"}, "NO_ERROR")
    /\ UNCHANGED << mAudioTrack, track, mFramesRead, mFramesWritten,
                    mPositionWhenPausing, prevRead, polledRaw, pausePoll,
                    conc >>

UpdateDefault ==
    /\ state \notin {"STARTING", "PAUSING", "FLUSHING", "STOPPING"}
    /\ last' = Call("updateState", "OK", 0, {}, "NONE")
    /\ UNCHANGED << state, mAudioTrack, track, mFramesRead, mFramesWritten,
                    mPositionWhenPausing, prevRead, polledRaw, pausePoll,
                    conc >>

UpdateState ==
    \/ UpdateStarting
    \/ UpdatePausingNotStopped
    \/ UpdatePausingPositionFails
    \/ UpdatePausingPolled
    \/ UpdateFlushingPositionFails
    \/ UpdateFlushingPolled
    \/ UpdateStopping
    \/ UpdateDefault

(* -------------------------------- write ------------------------------- *)

\* AAudioConvert_framesToBytes: the byte count must fit an int32_t.
FramesToBytesOk(numFrames) == numFrames <= Int32Max \div BytesPerFrame

NumFramesInputs == (0 .. MaxReq) \cup {Int32Max}

\* The sink call a write makes: mAudioTrack->write(buffer, numBytes, blocking).
SinkWrite(blocking) == IF blocking THEN "writeBlocking" ELSE "writeNonBlocking"

\* The conversion fails before mAudioTrack is used: no sink is needed.
WriteOutOfRange(numFrames) ==
    /\ ~FramesToBytesOk(numFrames)
    /\ last' = Call("write", "OUT_OF_RANGE", -1, {}, "NONE")
    /\ UNCHANGED << state, mAudioTrack, track, mFramesRead, mFramesWritten,
                    mPositionWhenPausing, prevRead, polledRaw, pausePoll,
                    conc >>

\* Mutant: WOULD_BLOCK is not told apart from the other negative results.
WriteResult_NoWouldBlock(bytesWritten) ==
    IF bytesWritten < 0
    THEN [ret |-> -1, frames |-> 0]
    ELSE [ret |-> bytesWritten \div BytesPerFrame,
          frames |-> bytesWritten \div BytesPerFrame]

\* Mutant: the byte count is returned and added without the division.
WriteResult_Bytes(bytesWritten) ==
    IF bytesWritten = WOULD_BLOCK
    THEN [ret |-> 0, frames |-> 0]
    ELSE IF bytesWritten < 0
    THEN [ret |-> -1, frames |-> 0]
    ELSE [ret |-> bytesWritten, frames |-> bytesWritten]

\* What write() returns (ret) and adds to mFramesWritten (frames), given
\* bytesWritten, the value the sink's write returned: a byte count or a
\* negative status.
WriteResult(bytesWritten) ==
    IF bytesWritten = WOULD_BLOCK
    THEN [ret |-> 0, frames |-> 0]
    ELSE IF bytesWritten < 0
    THEN [ret |-> -1, frames |-> 0]
    ELSE [ret |-> bytesWritten \div BytesPerFrame,
          frames |-> bytesWritten \div BytesPerFrame]

WriteStatus(bytesWritten) ==
    IF bytesWritten = WOULD_BLOCK THEN "WOULD_BLOCK"
    ELSE IF bytesWritten < 0 THEN "ERROR" ELSE "NO_ERROR"

WriteCall(blocking, bytesWritten) ==
    LET w == WriteResult(bytesWritten)
    IN  Call("write", IF w.ret < 0 THEN "SINK_ERROR" ELSE "OK", w.ret,
             {SinkWrite(blocking)}, WriteStatus(bytesWritten))

\* The sink has no room and the write does not block: WOULD_BLOCK.
WriteWouldBlock(numFrames) ==
    /\ mAudioTrack = "track"
    /\ FramesToBytesOk(numFrames)
    /\ numFrames > 0 /\ track.buf = MaxBuf
    /\ mFramesWritten' =
           Increment(mFramesWritten, WriteResult(WOULD_BLOCK).frames)
    /\ last' = WriteCall(FALSE, WOULD_BLOCK)
    /\ UNCHANGED << state, mAudioTrack, track, mFramesRead,
                    mPositionWhenPausing, prevRead, polledRaw, pausePoll,
                    conc >>

WriteSinkError(numFrames, blocking) ==
    /\ mAudioTrack = "track"
    /\ FramesToBytesOk(numFrames)
    /\ mFramesWritten' =
           Increment(mFramesWritten, WriteResult(DEAD_OBJECT).frames)
    /\ last' = WriteCall(blocking, DEAD_OBJECT)
    /\ UNCHANGED << state, mAudioTrack, track, mFramesRead,
                    mPositionWhenPausing, prevRead, polledRaw, pausePoll,
                    conc >>

\* The sink accepts k frames: all of them when blocking, at least one (if
\* any was offered) and no more than it has room for otherwise.
WriteAccepted(numFrames, blocking, k) ==
    /\ mAudioTrack = "track"
    /\ FramesToBytesOk(numFrames)
    /\ k <= numFrames
    /\ k <= MaxBuf - track.buf
    /\ numFrames > 0 => k > 0
    /\ blocking => k = numFrames
    /\ Get(mFramesWritten) + k <= MaxWritten
    /\ mFramesWritten' =
           Increment(mFramesWritten, WriteResult(k * BytesPerFrame).frames)
    /\ last' = WriteCall(blocking, k * BytesPerFrame)
    /\ track' = TrackAccept(track, k)
    /\ UNCHANGED << state, mAudioTrack, mFramesRead, mPositionWhenPausing,
                    prevRead, polledRaw, pausePoll, conc >>

Write ==
    \E numFrames \in NumFramesInputs :
        \/ WriteOutOfRange(numFrames)
        \/ WriteWouldBlock(numFrames)
        \/ \E blocking \in BOOLEAN :
               \/ WriteSinkError(numFrames, blocking)
               \/ \E k \in 0 .. MaxBuf : WriteAccepted(numFrames, blocking, k)

(* ---------------------------- getFramesRead --------------------------- *)

GetFramesRead ==
    /\ PollsPosition(state) => mAudioTrack = "track"
    /\ Get(mFramesRead) < MaxRead
    /\ \E posOk \in BOOLEAN :
          /\ mFramesRead' = FoldFramesRead(state, mFramesRead, track, posOk)
          /\ prevRead' = Get(mFramesRead')
          /\ polledRaw' = IF PollsPosition(state) /\ posOk
                           THEN track.pos ELSE polledRaw
          /\ last' = Call("getFramesRead", "OK", Get(mFramesRead'),
                          IF PollsPosition(state) THEN {"getPosition"} ELSE {},
                          IF ~PollsPosition(state) THEN "NONE"
                          ELSE IF posOk THEN "NO_ERROR" ELSE "ERROR")
    /\ UNCHANGED << state, mAudioTrack, track, mFramesWritten,
                    mPositionWhenPausing, pausePoll, conc >>

(* ----------------------------- getTimestamp --------------------------- *)

ClockIds == {"CLOCK_BOOTTIME", "CLOCK_MONOTONIC", "CLOCK_REALTIME"}

\* The switch on clockId: the timebase, or "NONE" in the default branch.
Timebase(clockId) ==
    IF clockId = "CLOCK_BOOTTIME" THEN "TIMEBASE_BOOTTIME"
    ELSE IF clockId = "CLOCK_MONOTONIC" THEN "TIMEBASE_MONOTONIC"
    ELSE "NONE"

\* The record of a getTimestamp call: that of Call, and the clock asked for.
TimestampCall(clockId, result, status) ==
    [op |-> "getTimestamp", result |-> result, ret |-> 0,
     calls |-> {"getTimestamp"}, status |-> status, clock |-> clockId]

\* The sink's getTimestamp is called first; sinkOk is whether it succeeded,
\* bestOk whether the sample has a timestamp for the timebase.
GetTimestampResult(clockId, sinkOk, bestOk) ==
    IF ~sinkOk THEN TimestampCall(clockId, "SINK_ERROR", "ERROR")
    ELSE IF Timebase(clockId) = "NONE"
    THEN TimestampCall(clockId, "UNEXPECTED_VALUE", "NO_ERROR")
    ELSE TimestampCall(clockId, IF bestOk THEN "OK" ELSE "SINK_ERROR",
                       "NO_ERROR")

\* The sink is called without a null check: taken with a track held.
GetTimestamp ==
    /\ mAudioTrack = "track"
    /\ \E clockId \in ClockIds, sinkOk \in BOOLEAN, bestOk \in BOOLEAN :
          last' = GetTimestampResult(clockId, sinkOk, bestOk)
    /\ UNCHANGED << state, mAudioTrack, track, mFramesRead, mFramesWritten,
                    mPositionWhenPausing, prevRead, polledRaw, pausePoll,
                    conc >>

(* ------------------------- the sink's own steps ----------------------- *)

SinkCall == Call("sink", "OK", 0, {}, "NONE")

\* One frame is rendered: by a running track, or while a track at rest
\* still drains.
SinkPlay ==
    /\ mAudioTrack = "track"
    /\ track.buf > 0
    /\ TrackRuns(track) \/ track.drain > 0
    /\ track' = [track EXCEPT
                    !.pos = (@ + 1) % WrapModulus,
                    !.buf = @ - 1,
                    !.drain = IF TrackRuns(track) THEN @ ELSE @ - 1,
                    !.started = IF track.mode = "active" THEN TRUE ELSE @]
    /\ last' = SinkCall
    /\ UNCHANGED << state, mAudioTrack, mFramesRead, mFramesWritten,
                    mPositionWhenPausing, prevRead, polledRaw, pausePoll,
                    conc >>

\* An active track reports that it has started.
SinkStarted ==
    /\ mAudioTrack = "track"
    /\ track.mode = "active" /\ ~track.started
    /\ track' = [track EXCEPT !.started = TRUE]
    /\ last' = SinkCall
    /\ UNCHANGED << state, mAudioTrack, mFramesRead, mFramesWritten,
                    mPositionWhenPausing, prevRead, polledRaw, pausePoll,
                    conc >>

\* A pause or stop takes effect: the track reports itself stopped, and d of
\* its buffered frames are still rendered afterwards.
SinkSettle ==
    /\ mAudioTrack = "track"
    /\ track.mode \in {"pausing", "stopping"}
    /\ \E d \in Drains(track) :
          track' = [track EXCEPT
                       !.mode = IF @ = "pausing" THEN "paused" ELSE "stopped",
                       !.drain = d]
    /\ last' = SinkCall
    /\ UNCHANGED << state, mAudioTrack, mFramesRead, mFramesWritten,
                    mPositionWhenPausing, prevRead, polledRaw, pausePoll,
                    conc >>

\* A requested flush takes effect: the buffer is dropped, the position is 0.
SinkFlushDone ==
    /\ mAudioTrack = "track"
    /\ track.flushPending
    /\ track' = [track EXCEPT !.pos = 0, !.buf = 0, !.drain = 0,
                              !.flushPending = FALSE]
    /\ last' = SinkCall
    /\ UNCHANGED << state, mAudioTrack, mFramesRead, mFramesWritten,
                    mPositionWhenPausing, prevRead, polledRaw, pausePoll,
                    conc >>

Next ==
    \/ Open
    \/ Close
    \/ RequestStart
    \/ RequestPause
    \/ RequestFlush
    \/ RequestStop
    \/ UpdateState
    \/ Write
    \/ GetFramesRead
    \/ SinkPlay
    \/ SinkStarted
    \/ SinkSettle
    \/ SinkFlushDone

Spec == Init /\ [][Next]_vars

\* getTimestamp changes no field of the stream.  It is checked together with
\* the lifecycle operations, which decide the state and whether a sink is
\* held, and the sink's steps that let the lifecycle advance.
NextTimestamp ==
    \/ Open
    \/ Close
    \/ RequestStart
    \/ RequestPause
    \/ RequestFlush
    \/ RequestStop
    \/ UpdateState
    \/ GetTimestamp
    \/ SinkStarted
    \/ SinkSettle
    \/ SinkFlushDone

SpecTimestamp == Init /\ [][NextTimestamp]_vars

(* ------------- writer and driver contexts, step by step --------------- *)
\* write runs in the writer context, the requests, updateState and
\* getFramesRead in the driver context.  The operations that touch
\* mFramesWritten are split at each read and each update of a counter:
\* incrementFramesWritten is a load and a store of the 64-bit value,
\* getFramesWritten a load, reset32 a store to the wrapping part only.  A load
\* that races with the writer's store sees the value before or after it.
\* The sink takes frames, starts, comes to rest and flushes; it renders
\* nothing in these executions (its position feeds framesRead only).

DriverIdle == dpc = "idle"

\* write, up to the sink's answer: the sink has accepted k frames.
ConcWriteAccept(numFrames, blocking, k) ==
    /\ wpc = "idle"
    /\ mAudioTrack = "track"
    /\ FramesToBytesOk(numFrames)
    /\ k <= numFrames
    /\ k <= MaxBuf - track.buf
    /\ numFrames > 0 => k > 0
    /\ blocking => k = numFrames
    /\ accepted + k <= MaxAccepted
    /\ track' = TrackAccept(track, k)
    /\ wk' = WriteResult(k * BytesPerFrame).frames
    /\ wblocking' = blocking
    /\ accepted' = accepted + k
    /\ wpc' = "load"
    /\ UNCHANGED << state, mAudioTrack, mFramesRead, mFramesWritten,
                    mPositionWhenPausing, last, prevRead, polledRaw,
                    pausePoll, wtmp, dpc, dop, dtmp, dposOk >>

\* incrementFramesWritten: the load of the 64-bit value.
ConcWriteLoad ==
    /\ wpc = "load"
    /\ wtmp' = Get(mFramesWritten)
    /\ wpc' = "store"
    /\ UNCHANGED << state, mAudioTrack, track, mFramesRead, mFramesWritten,
                    mPositionWhenPausing, last, prevRead, polledRaw,
                    pausePoll, wk, wblocking, dpc, dop, dtmp, dposOk,
                    accepted >>

\* incrementFramesWritten: the store of the sum; write returns.
ConcWriteStore ==
    /\ wpc = "store"
    /\ mFramesWritten' = [mFramesWritten EXCEPT !.counter64 = wtmp + wk]
    /\ last' = WriteCall(wblocking, wk * BytesPerFrame)
    /\ wpc' = "idle" /\ wk' = 0 /\ wtmp' = 0
    /\ wblocking' = FALSE
    /\ UNCHANGED << state, mAudioTrack, track, mFramesRead,
                    mPositionWhenPausing, prevRead, polledRaw, pausePoll,
                    dpc, dop, dtmp, dposOk, accepted >>

\* requestFlush up to setState(FLUSHING).
ConcFlushEnter ==
    /\ DriverIdle
    /\ mAudioTrack = "track" /\ FlushAllowed(state)
    /\ state' = "FLUSHING"
    /\ pausePoll' = -1
    /\ last' = Call("requestFlush", "OK", 0, {"flush"}, "NO_ERROR")
    /\ dpc' = "load" /\ dop' = "flush"
    /\ UNCHANGED << mAudioTrack, track, mFramesRead, mFramesWritten,
                    mPositionWhenPausing, prevRead, polledRaw,
                    wpc, wk, wblocking, wtmp, dtmp, dposOk, accepted >>

\* requestStop up to setState(STOPPING).  The request returns OK whatever
\* its getPosition answers; posOk is the answer the query of this request
\* gets, as in RequestStopGo.
ConcStopEnter(posOk) ==
    /\ DriverIdle
    /\ mAudioTrack = "track"
    /\ state' = "STOPPING"
    /\ pausePoll' = -1
    /\ last' = Call("requestStop", "OK", 0,
                    {"getPosition", "stop"},
                    IF posOk THEN "NO_ERROR" ELSE "ERROR")
    /\ dpc' = "load" /\ dop' = "stop"
    /\ dposOk' = posOk
    /\ UNCHANGED << mAudioTrack, track, mFramesRead, mFramesWritten,
                    mPositionWhenPausing, prevRead, polledRaw,
                    wpc, wk, wblocking, wtmp, dtmp, accepted >>

\* getFramesWritten(): the driver's load of the 64-bit value.
ConcLoadWritten ==
    /\ dpc = "load"
    /\ dtmp' = Get(mFramesWritten)
    /\ dpc' = "fold"
    /\ UNCHANGED << state, mAudioTrack, track, mFramesRead, mFramesWritten,
                    mPositionWhenPausing, last, prevRead, polledRaw,
                    pausePoll, wpc, wk, wblocking, wtmp, dop, dposOk,
                    accepted >>

\* getFramesRead(), incrementFramesRead and the sink's flush() or stop():
\* mFramesRead belongs to the driver context alone.  In STOPPING the fold
\* polls the sink, which answers dposOk; in FLUSHING it does not poll.
ConcFold ==
    /\ dpc = "fold"
    /\ LET c == FoldFramesRead(state, mFramesRead, track, dposOk)
       IN  mFramesRead' = Increment(c, dtmp - Get(c))
    /\ track' = IF dop = "flush" THEN TrackFlush(track) ELSE TrackStop(track)
    /\ prevRead' = -1
    /\ polledRaw' = -1
    /\ dpc' = "reset"
    /\ UNCHANGED << state, mAudioTrack, mFramesWritten, mPositionWhenPausing,
                    last, pausePoll, wpc, wk, wblocking, wtmp, dop, dtmp,
                    dposOk, accepted >>

\* Mutant: the reset writes the whole counter back from the value loaded
\* for the fold.
ConcReset32_WholeCounter ==
    /\ dpc = "reset"
    /\ mFramesWritten' = [counter64 |-> dtmp, counter32 |-> 0]
    /\ dpc' = "idle" /\ dop' = "none" /\ dtmp' = 0 /\ dposOk' = TRUE
    /\ UNCHANGED << state, mAudioTrack, track, mFramesRead,
                    mPositionWhenPausing, last, prevRead, polledRaw,
                    pausePoll, wpc, wk, wblocking, wtmp, accepted >>

\* mFramesWritten.reset32(): a store to the wrapping part; the request returns.
ConcReset32 ==
    /\ dpc = "reset"
    /\ mFramesWritten' = [mFramesWritten EXCEPT !.counter32 = 0]
    /\ dpc' = "idle" /\ dop' = "none" /\ dtmp' = 0 /\ dposOk' = TRUE
    /\ UNCHANGED << state, mAudioTrack, track, mFramesRead,
                    mPositionWhenPausing, last, prevRead, polledRaw,
                    pausePoll, wpc, wk, wblocking, wtmp, accepted >>

\* The driver's operations that run as one step, between two requests.
ConcDriverOp ==
    /\ DriverIdle
    /\ \/ OpenOk
       \/ RequestStartOk
       \/ RequestPause
       \/ UpdateState
       \/ GetFramesRead

ConcurrentNext ==
    \/ \E numFrames \in NumFramesInputs, blocking \in BOOLEAN, k \in 0 .. MaxBuf :
           ConcWriteAccept(numFrames, blocking, k)
    \/ ConcWriteLoad
    \/ ConcWriteStore
    \/ ConcFlushEnter
    \/ \E posOk \in BOOLEAN : ConcStopEnter(posOk)
    \/ ConcLoadWritten
    \/ ConcFold
    \/ ConcReset32
    \/ ConcDriverOp
    \/ SinkStarted
    \/ SinkSettle
    \/ SinkFlushDone

ConcurrentSpec == Init /\ [][ConcurrentNext]_vars

(* ------------------- settling of the transitional states -------------- *)

Transitional == {"STARTING", "PAUSING", "FLUSHING", "STOPPING"}

\* The driver issues open, close and the requests only when no transition is
\* in progress, and otherwise polls updateState; the writer writes while the
\* total written is below MaxLiveWritten.
LiveNext ==
    \/ /\ state \notin Transitional
       /\ \/ Open
          \/ Close
          \/ RequestStart
          \/ RequestPause
          \/ RequestFlush
          \/ RequestStop
    \/ UpdateState
    \/ (Get(mFramesWritten) < MaxLiveWritten /\ Write)
    \/ SinkPlay
    \/ SinkStarted
    \/ SinkSettle
    \/ SinkFlushDone

\* The driver keeps polling and its polls' queries succeed in the end; the
\* sink reports a start, comes to rest after a pause or stop and carries out
\* a flush in the end.
LiveSpec ==
    /\ Init
    /\ [][LiveNext]_vars
    /\ WF_vars(UpdateStarting)
    /\ WF_vars(UpdatePausingPolled)
    /\ WF_vars(UpdateFlushingPolled)
    /\ WF_vars(UpdateStopping)
    /\ WF_vars(SinkStarted)
    /\ WF_vars(SinkSettle)
    /\ WF_vars(SinkFlushDone)

(* ------------------------------- claims ------------------------------- *)

\* C1: in every reachable state framesRead <= framesWritten.
C1_FramesReadAtMostWritten == Get(mFramesRead) <= Get(mFramesWritten)

\* C2: the state moves from PAUSING to PAUSED only in an updateState poll in
\* which the sink reports stopped and the polled position equals the position
\* observed by the preceding poll of this pause (the snapshot of requestPause
\* or the previous updateState poll); a poll that finds another position than
\* the stored snapshot stays PAUSING and stores the new position.
C2_PausedOnlyAfterTwoEqualPolls ==
    [][state = "PAUSING" =>
          /\ state' = "PAUSED" =>
                /\ last'.op = "updateState"
                /\ TrackStopped(track)
                /\ pausePoll # -1
                /\ track.pos = pausePoll
          /\ ( /\ last'.op = "updateState"
               /\ "getPosition" \in last'.calls
               /\ last'.status = "NO_ERROR"
               /\ track.pos # mPositionWhenPausing )
             => /\ state' = "PAUSING"
                /\ mPositionWhenPausing' = track.pos]_vars

\* C3: when updateState has just moved the state to FLUSHED (the only
\* updateState that queries the position and ends in FLUSHED), framesRead
\* equals framesWritten.
C3_FlushedReadEqualsWritten ==
    ( /\ state = "FLUSHED"
      /\ last.op = "updateState"
      /\ "getPosition" \in last.calls )
    => Get(mFramesRead) = Get(mFramesWritten)

\* C4: once the flush has completed (FLUSHED) the read tracker's last
\* observed raw position is zero, so the next fold starts from zero.
C4_FlushedFoldStartsFromZero ==
    state = "FLUSHED" => mFramesRead.counter32 = 0

\* C5: without a requestFlush or requestStop in between, successive
\* getFramesRead calls return non-decreasing values (prevRead is the value of
\* the last call since the last flush or stop, -1 when there is none).
C5_FramesReadNonDecreasing ==
    [][(prevRead # -1 /\ prevRead' # -1) => prevRead' >= prevRead]_vars

C5_Witness ==
    /\ last.op = "getFramesRead"
    /\ last.status = "NO_ERROR"
    /\ prevRead = WrapModulus
    /\ mFramesRead.counter32 = 0
    /\ Get(mFramesWritten) >= WrapModulus

\* C6: the state becomes STARTED only in an updateState executed in STARTING
\* in which the sink's hasStarted flag reads true.
C6_StartedOnlyWhenSinkStarted ==
    [][(state' = "STARTED" /\ state # "STARTED") =>
          /\ state = "STARTING"
          /\ last'.op = "updateState"
          /\ "hasStarted" \in last'.calls
          /\ track.started]_vars

C6_Witness ==
    /\ state = "STARTED"
    /\ last.op = "updateState"
    /\ "hasStarted" \in last.calls

\* C7: after an open that failed on initCheck the state is UNINITIALIZED and
\* no sink is held.  The code rolls back through close(): the state becomes
\* CLOSED, and when it was CLOSED already the failed sink stays in mAudioTrack.
C7_FailedOpenLeavesUninitialized ==
    (last.op = "open" /\ last.status = "ERROR")
    => (state = "UNINITIALIZED" /\ mAudioTrack = "null")

\* The edges of the lifecycle diagram.
DiagramEdges ==
    { <<"UNINITIALIZED", "OPEN">>, <<"OPEN", "STARTING">>,
      <<"STARTING", "STARTED">>, <<"STARTING", "PAUSING">>,
      <<"STARTED", "PAUSING">>, <<"PAUSING", "PAUSED">>,
      <<"PAUSED", "STARTING">>, <<"PAUSED", "FLUSHING">>,
      <<"FLUSHING", "FLUSHED">>, <<"STARTED", "STOPPING">>,
      <<"STARTING", "STOPPING">>, <<"PAUSING", "STOPPING">>,
      <<"PAUSED", "STOPPING">>, <<"STOPPING", "STOPPED">> }
    \cup { <<s, "CLOSED">> : s \in States }

\* The edges the operations have: open, requestStart and requestStop have no
\* state precondition.
CodeEdges ==
    { <<"STARTING", "STARTED">>, <<"STARTING", "PAUSING">>,
      <<"STARTED", "PAUSING">>, <<"PAUSING", "PAUSED">>,
      <<"PAUSED", "FLUSHING">>, <<"FLUSHING", "FLUSHED">>,
      <<"STOPPING", "STOPPED">> }
    \cup { <<s, "OPEN">> : s \in States }
    \cup { <<s, "STARTING">> : s \in States \ {"UNINITIALIZED"} }
    \cup { <<s, "STOPPING">> : s \in States \ {"UNINITIALIZED"} }
    \cup { <<s, "CLOSED">> : s \in States }

\* C8 (as claimed): every state change is an edge of the lifecycle diagram.
C8_OnlyDiagramEdges ==
    [][state' # state => <<state, state'>> \in DiagramEdges]_vars

\* C8 (amended): every state change is an edge of the diagram, or enters
\* OPEN by open, or enters STARTING by requestStart or STOPPING by
\* requestStop from a state in which a sink is held.
C8_OnlyCodeEdges ==
    [][state' # state =>
          /\ <<state, state'>> \in CodeEdges
          /\ state' = "OPEN" => last'.op = "open"
          /\ state' = "STARTING" =>
                (last'.op = "requestStart" /\ mAudioTrack = "track")
          /\ state' = "STOPPING" =>
                (last'.op = "requestStop" /\ mAudioTrack = "track")]_vars

C8_Witness ==
    /\ state = "STARTING"
    /\ last.op = "requestStart"
    /\ last.result = "OK"
    /\ Get(mFramesRead) > 0
    /\ track.pos = 0

\* C9: requestPause outside STARTING/STARTED and requestFlush outside PAUSED
\* return the invalid-state error, call nothing on the sink and change
\* neither the state, the frame counters, the snapshot nor the sink.
C9_InvalidRequestChangesNothing ==
    [][( \/ last'.op = "requestPause" /\ state \notin {"STARTING", "STARTED"}
         \/ last'.op = "requestFlush" /\ state # "PAUSED" )
       => /\ last'.result = "INVALID_STATE"
          /\ last'.calls = {}
          /\ UNCHANGED << state, mFramesRead, mFramesWritten,
                          mPositionWhenPausing, mAudioTrack, track >>]_vars

C9_Witness ==
    /\ state = "OPEN"
    /\ mAudioTrack = "track"
    /\ last.op = "requestPause"
    /\ last.result = "INVALID_STATE"

\* C10: a non-blocking write to which the sink answers would-block returns
\* exactly 0 and leaves framesWritten unchanged.
C10_WouldBlockReturnsZero ==
    [][( /\ last'.op = "write"
         /\ "writeNonBlocking" \in last'.calls
         /\ last'.status = "WOULD_BLOCK" )
       => /\ last'.ret = 0
          /\ mFramesWritten' = mFramesWritten]_vars

C10_Witness ==
    /\ last.op = "write"
    /\ "writeNonBlocking" \in last.calls
    /\ last.status = "WOULD_BLOCK"
    /\ last.ret = 0
    /\ track.buf = MaxBuf

\* C11: a write in which the sink accepts k whole frames (its buffer grows by
\* k, 0 <= k <= numFrames) returns k and increases framesWritten by exactly
\* k; a write that returns a negative error leaves framesWritten unchanged.
C11_WriteCountsAcceptedFrames ==
    [][last'.op = "write" =>
          /\ last'.status = "NO_ERROR" =>
                /\ last'.ret = track'.buf - track.buf
                /\ Get(mFramesWritten') = Get(mFramesWritten) + last'.ret
          /\ last'.ret < 0 => mFramesWritten' = mFramesWritten]_vars

\* A non-blocking write was accepted in part: fewer frames than the sink had
\* room for were offered before, and this one filled the buffer.
C11_Witness ==
    /\ last.op = "write"
    /\ last.status = "NO_ERROR"
    /\ "writeNonBlocking" \in last.calls
    /\ last.ret = 1
    /\ track.buf = MaxBuf
    /\ Get(mFramesWritten) = MaxBuf

\* C12: when a getFramesRead poll observes the raw position p2 and the
\* preceding successful poll, with no flush or stop in between, observed p1,
\* framesRead grows from what the preceding call returned by (M - p1) + p2 if
\* p2 < p1 and by p2 - p1 otherwise (M the wrap modulus).
C12_FoldAddsModulusOnWrap ==
    [][( /\ last'.op = "getFramesRead"
         /\ last'.status = "NO_ERROR"
         /\ polledRaw # -1 )
       => LET p1 == polledRaw
              p2 == track.pos
          IN  Get(mFramesRead') - prevRead =
                  IF p2 < p1 THEN (WrapModulus - p1) + p2 ELSE p2 - p1]_vars

\* A poll has observed the raw position M - 1 and returned M - 1, no flush or
\* stop followed, the sink then rendered one more frame and its position
\* wrapped to 0: the poll the stream is ready for observes p2 = 0 < p1.
C12_Witness ==
    /\ state = "STARTED"
    /\ last.op = "sink"
    /\ polledRaw = WrapModulus - 1
    /\ prevRead = WrapModulus - 1
    /\ mFramesRead.counter32 = WrapModulus - 1
    /\ track.pos = 0
    /\ track.mode = "active"

\* C13: close, in any state, returns success and leaves the state CLOSED
\* with no sink held; a close of a stream already CLOSED changes nothing; and
\* on a CLOSED stream requestStart, requestPause, requestFlush and requestStop
\* return the invalid-state error and leave the state CLOSED.
C13_CloseIsFinal ==
    [][ /\ last'.op = "close" =>
              /\ last'.result = "OK"
              /\ state' = "CLOSED"
              /\ mAudioTrack' = "null"
              /\ state = "CLOSED" =>
                    UNCHANGED << state, mAudioTrack, track, mFramesRead,
                                 mFramesWritten, mPositionWhenPausing >>
        /\ ( /\ state = "CLOSED"
             /\ last'.op \in {"requestStart", "requestPause",
                              "requestFlush", "requestStop"} )
           => /\ last'.result = "INVALID_STATE"
              /\ state' = "CLOSED" ]_vars

\* C14: an updateState that returns an error because the sink's position
\* query failed (in PAUSING or FLUSHING) leaves the state, the pause
\* snapshot, the frame counters and the sink as they were, so the next
\* updateState starts from the same values as if the failed one had not run.
C14_FailedPollChangesNothing ==
    [][(last'.op = "updateState" /\ last'.status = "ERROR") =>
          /\ state \in {"PAUSING", "FLUSHING"}
          /\ last'.result = "SINK_ERROR"
          /\ UNCHANGED << state, mPositionWhenPausing, mAudioTrack, track,
                          mFramesRead, mFramesWritten, pausePoll >>]_vars

\* A poll failed in PAUSING while the sink, at rest, stood at another
\* position than the snapshot: a successful poll would have replaced it.
C14_Witness ==
    /\ state = "PAUSING"
    /\ last.op = "updateState"
    /\ last.status = "ERROR"
    /\ TrackStopped(track)
    /\ track.pos # mPositionWhenPausing

\* C15: a getTimestamp called with a clock other than boot-time or monotonic
\* returns the unsupported-value error whatever the sink's timestamp query
\* answers, and calls nothing on the sink.
C15_UnsupportedClockRejectedFirst ==
    [][( /\ last'.op = "getTimestamp"
         /\ last'.clock \notin {"CLOCK_BOOTTIME", "CLOCK_MONOTONIC"} )
       => /\ last'.result = "UNEXPECTED_VALUE"
          /\ last'.calls = {}]_vars

\* C16: with write running in one context and the requests, updateState and
\* getFramesRead in another, interleaved at each read and update of a
\* counter, framesWritten is at every moment the total of the frames accepted
\* by the writes that have completed (all accepted frames but those of the
\* write in flight, wk): no step of the driver changes or loses an increment.
C16_WrittenCountsCompletedWrites ==
    Get(mFramesWritten) = accepted - wk

\* A write completed between the driver's load of framesWritten and its
\* reset32: the value the driver holds is older than the counter.
C16_Witness ==
    /\ wpc = "idle"
    /\ last.op = "write"
    /\ dpc = "reset"
    /\ dtmp < Get(mFramesWritten)
    /\ Get(mFramesWritten) = accepted

\* C17: when the driver keeps polling updateState and issues no request
\* while a transition is in progress, and the sink reports in the end that it
\* started, came to rest or flushed, every transitional state settles:
\* STARTING leads to STARTED, PAUSING to PAUSED, FLUSHING to FLUSHED and
\* STOPPING to STOPPED.
C17_TransitionsSettle ==
    /\ (state = "STARTING") ~> (state = "STARTED")
    /\ (state = "PAUSING") ~> (state = "PAUSED")
    /\ (state = "FLUSHING") ~> (state = "FLUSHED")
    /\ (state = "STOPPING") ~> (state = "STOPPED")

\* A pause settled after the sink went on rendering: the poll that entered
\* PAUSED found the position a previous poll had stored, not the one
\* requestPause had seen.
C17_Witness ==
    /\ state = "PAUSED"
    /\ last.op = "updateState"
    /\ track.pos = mPositionWhenPausing
    /\ track.pos > 0
    /\ track.buf < Get(mFramesWritten) - track.pos

\* C18: a requestStart, requestPause, requestFlush or requestStop that
\* returns a result other than OK leaves the stream state as it was.
C18_FailedRequestKeepsState ==
    [][( /\ last'.op \in {"requestStart", "requestPause",
                          "requestFlush", "requestStop"}
         /\ last'.result # "OK" )
       => state' = state]_vars

\* C19: in every reachable state, a stream whose state is OPEN, STARTING,
\* STARTED, PAUSING, PAUSED, FLUSHING, FLUSHED, STOPPING or STOPPED holds a
\* sink; so the sink calls updateState and getFramesRead make without a null
\* check (in STARTING, STARTED, PAUSING, FLUSHING, STOPPING) find a sink.
C19_OpenStatesHoldSink ==
    state \notin {"UNINITIALIZED", "CLOSED"} => mAudioTrack = "track"

\* getFramesRead has queried the sink of a stream in STOPPING, without a
\* null check, and the sink was there.
C19_Witness ==
    /\ state = "STOPPING"
    /\ mAudioTrack = "track"
    /\ last.op = "getFramesRead"
    /\ "getPosition" \in last.calls
    /\ last.status = "NO_ERROR"

\* C20: getFramesRead queries the sink's position exactly when the state is
\* STARTING, STARTED or STOPPING, and folds it into framesRead when the query
\* succeeded; in any other state, or when the query failed, it returns the
\* framesRead it found and leaves framesRead alone; it never changes the
\* state or the sink.
C20_PollsOnlyWhileSinkAdvances ==
    [][last'.op = "getFramesRead" =>
          LET polls == state \in {"STARTING", "STARTED", "STOPPING"}
          IN  /\ ("getPosition" \in last'.calls) <=> polls
              /\ (polls /\ last'.status = "NO_ERROR") =>
                    /\ mFramesRead'.counter32 = track.pos
                    /\ last'.ret = Get(mFramesRead')
              /\ (~polls \/ last'.status = "ERROR") =>
                    /\ last'.ret = Get(mFramesRead)
                    /\ mFramesRead' = mFramesRead
              /\ UNCHANGED << state, mAudioTrack, track >>]_vars

\* getFramesRead was called in PAUSED while the sink stood at another
\* position than the last one folded: it did not query the sink.
C20_Witness ==
    /\ state = "PAUSED"
    /\ last.op = "getFramesRead"
    /\ last.calls = {}
    /\ track.pos # mFramesRead.counter32
    /\ last.ret = Get(mFramesRead)
====
